---- MODULE Spec2Model ----
(***************************************************************************)
(* Model of src/import.py: Converter reads the schema of a graph database  *)
(* (db.schema.visualization and db.schema.nodeTypeProperties) and builds   *)
(* the Hume schema document {classes, relationships}.                      *)
(*                                                                         *)
(* Python dicts keep insertion order; they are modelled as sequences of    *)
(* [key, value] entries.  uuid.uuid4() is modelled as a collision-free     *)
(* generator: the n-th token minted in a run is the positive number n.     *)
(* Node identities of the virtual schema nodes are negative numbers, so a  *)
(* node identity is never equal to a minted token.  The decorative         *)
(* canvasPosition (random.randint) is left out of the class object; icon   *)
(* and color are kept.  An absent Python value (None, or a name not yet    *)
(* bound) is the empty sequence NoneVal, a present one is <<value>>.       *)
(***************************************************************************)
EXTENDS Integers, Sequences, FiniteSets, TLC

VARIABLES pc, queries, nodes, rels, props, class_uuid, minted, classes,
          relationships, attributes_map, assignLog, log, error, schema,
          file, humeType

vars == <<pc, queries, nodes, rels, props, class_uuid, minted, classes,
          relationships, attributes_map, assignLog, log, error, schema,
          file, humeType>>

-----------------------------------------------------------------------------
(* Bounds of the model *)

\* total number of records (node + relationship + property) the source returns
MaxRecords == 4

\* longest propertyTypes list given to _to_hume_type on its own
MaxTypes == 2

Labels == {"Person", "Company"}

RelTypes == {"KNOWS", "WORKS_AT"}

SourceTypes == {"String", "Long", "Double", "StringArray", "Date", "Point",
                "Boolean", "Alien"}

\* (propertyName, propertyTypes) of the property records of a full run
PropShapes == {<<"age", <<"Long">> >>, <<"name", <<"Alien", "Date">> >>}

LabelLists == {<<>>} \cup {<<l>> : l \in Labels}
                 \cup {<<"Person", "Company">>}

-----------------------------------------------------------------------------
(* Python values *)

NoneVal == <<>>

Some(v) == <<v>>

\* identity of the i-th virtual node of the visualization result
NodeId(i) == 0 - i

\* a node that is not part of the node set of the visualization result
GhostNode == [id |-> 0, name |-> "Ghost"]

\* the token uuid.uuid4() returns after n tokens were minted
Uuid4(n) == n + 1

DictHas(d, k) == \E i \in 1..Len(d) : d[i].key = k

DictGet(d, k) == d[CHOOSE i \in 1..Len(d) : d[i].key = k].value

DictKeys(d) == [i \in 1..Len(d) |-> d[i].key]

DictValues(d) == [i \in 1..Len(d) |-> d[i].value]

\* a wrong d[k] = v: an existing key keeps its first value
DictSetKeepFirst(d, k, v) ==
    IF DictHas(d, k) THEN d ELSE Append(d, [key |-> k, value |-> v])

\* a wrong d[k] = v: an overwritten key moves to the end of the dict
DictSetMoveToEnd(d, k, v) ==
    Append(SelectSeq(d, LAMBDA e : e.key # k), [key |-> k, value |-> v])

\* d[k] = v: a new key is appended, an existing key keeps its position
DictSet(d, k, v) ==
    IF DictHas(d, k)
    THEN [i \in 1..Len(d) |->
            IF d[i].key = k THEN [key |-> k, value |-> v] ELSE d[i]]
    ELSE Append(d, [key |-> k, value |-> v])

-----------------------------------------------------------------------------
(* Converter *)

TYPES_MAPPING ==
    ("String" :> "STRING") @@ ("Long" :> "NUMBER") @@ ("Double" :> "DOUBLE")
    @@ ("StringArray" :> "STRING") @@ ("Date" :> "DATE")
    @@ ("Point" :> "STRING") @@ ("Boolean" :> "BOOLEAN")

\* a wrong _to_hume_type: an unrecognised type is passed through
_to_hume_type_passthrough(node) ==
    LET property_type == node.propertyTypes[1]
    IN  IF property_type \in DOMAIN TYPES_MAPPING
        THEN TYPES_MAPPING[property_type]
        ELSE property_type

\* a wrong _to_hume_type: the last observed type is taken
_to_hume_type_last(node) ==
    LET property_type == node.propertyTypes[Len(node.propertyTypes)]
    IN  IF property_type \in DOMAIN TYPES_MAPPING
        THEN TYPES_MAPPING[property_type]
        ELSE "STRING"

\* the value _to_hume_type returns (propertyTypes is not empty)
_to_hume_type(node) ==
    LET property_type == node.propertyTypes[1]
    IN  IF property_type \in DOMAIN TYPES_MAPPING
        THEN TYPES_MAPPING[property_type]
        ELSE "STRING"

\* the warnings _to_hume_type logs, in order
_to_hume_type_log(node) ==
    (IF Len(node.propertyTypes) > 1
     THEN <<"multiple property types">> ELSE <<>>)
    \o (IF node.propertyTypes[1] \notin DOMAIN TYPES_MAPPING
        THEN <<"unsupported type">> ELSE <<>>)

\* the class object _make_class returns for a node and a fresh token
_make_class(node, class_uuid_) ==
    [label |-> node.name, icon |-> "mdi-circle-outline", color |-> "#aaa",
     uuid |-> class_uuid_]

\* both lookups self._class_uuid[...] of _make_rel find their key
_make_rel_resolves(relation, cu) ==
    /\ relation.nodes[1].id \in DOMAIN cu
    /\ relation.nodes[2].id \in DOMAIN cu

\* the relation object _make_rel returns when both lookups succeed
_make_rel(relation, cu, uuid_) ==
    LET node_from == relation.nodes[1]
        node_to == relation.nodes[2]
    IN  [uuid |-> uuid_,
         start |-> cu[node_from.id],
         startLabel |-> node_from.name,
         endLabel |-> node_to.name,
         endId |-> cu[node_to.id],
         label |-> relation.type]

\* self._class_uuid[node.id] = class_uuid
SetClassUuid(cu, id, u) ==
    [x \in (DOMAIN cu) \cup {id} |-> IF x = id THEN u ELSE cu[x]]

\* the dict comprehension of line 50 over the node records ns
RECURSIVE MakeClasses(_, _)
MakeClasses(ns, st) ==
    IF ns = <<>> THEN st
    ELSE LET node == Head(ns)
             u == Uuid4(st.minted)
         IN  MakeClasses(Tail(ns),
                [classes |-> DictSet(st.classes, node.name,
                                     _make_class(node, u)),
                 class_uuid |-> SetClassUuid(st.class_uuid, node.id, u),
                 minted |-> st.minted + 1])

\* a wrong comprehension of line 51: an unresolvable relationship is skipped
RECURSIVE MakeRelsSkip(_, _, _)
MakeRelsSkip(rs, cu, st) ==
    IF rs = <<>> THEN st
    ELSE LET rel == Head(rs)
         IN  IF _make_rel_resolves(rel, cu)
             THEN MakeRelsSkip(Tail(rs), cu,
                    [st EXCEPT
                       !.relationships =
                          DictSet(@, rel.type,
                                  _make_rel(rel, cu, Uuid4(st.minted))),
                       !.minted = @ + 1])
             ELSE MakeRelsSkip(Tail(rs), cu, st)

\* the dict comprehension of line 51 over the relationship records rs;
\* a failed lookup raises KeyError and ends the comprehension
RECURSIVE MakeRels(_, _, _)
MakeRels(rs, cu, st) ==
    IF rs = <<>> THEN st
    ELSE LET rel == Head(rs)
         IN  IF _make_rel_resolves(rel, cu)
             THEN MakeRels(Tail(rs), cu,
                    [st EXCEPT
                       !.relationships =
                          DictSet(@, rel.type,
                                  _make_rel(rel, cu, Uuid4(st.minted))),
                       !.minted = @ + 1])
             ELSE [st EXCEPT !.error = Some("KeyError"), !.minted = @ + 1]

\* attributes_map.setdefault(label, []).append(attr)
SetDefaultAppend(am, label, attr) ==
    DictSet(am, label,
            Append(IF DictHas(am, label) THEN DictGet(am, label) ELSE <<>>,
                   attr))

\* a wrong loop body: a record with several labels goes to its first label
CollectRecordFirstLabel(st, node) ==
    IF Len(node.nodeLabels) >= 1
    THEN [attributes_map |->
            SetDefaultAppend(st.attributes_map, node.nodeLabels[1],
                             [label |-> node.propertyName,
                              type |-> _to_hume_type(node)]),
          log |-> st.log \o _to_hume_type_log(node)]
    ELSE [st EXCEPT !.log = Append(@, "multiple labels")]

\* a wrong loop body: the attribute is put in front of the list
CollectRecordPrepend(st, node) ==
    IF Len(node.nodeLabels) = 1
    THEN LET label == node.nodeLabels[1]
             old == IF DictHas(st.attributes_map, label)
                    THEN DictGet(st.attributes_map, label) ELSE <<>>
         IN  [attributes_map |->
                DictSet(st.attributes_map, label,
                        <<[label |-> node.propertyName,
                           type |-> _to_hume_type(node)]>> \o old),
              log |-> st.log \o _to_hume_type_log(node)]
    ELSE [st EXCEPT !.log = Append(@, "multiple labels")]

\* the body of the loop of lines 62-74 for one property record
CollectRecord(st, node) ==
    IF Len(node.nodeLabels) = 1
    THEN [attributes_map |->
            SetDefaultAppend(st.attributes_map, node.nodeLabels[1],
                             [label |-> node.propertyName,
                              type |-> _to_hume_type(node)]),
          log |-> st.log \o _to_hume_type_log(node)]
    ELSE [st EXCEPT !.log = Append(@, "multiple labels")]

\* the loop of lines 62-74 over the property records ps
RECURSIVE CollectAll(_, _)
CollectAll(ps, st) ==
    IF ps = <<>> THEN st
    ELSE CollectAll(Tail(ps), CollectRecord(st, Head(ps)))

\* classes[key]['attributes'] = list(attributes), on an existing class
SetAttributes(cls, key, attributes) ==
    DictSet(cls, key, [attributes |-> attributes] @@ DictGet(cls, key))

\* a wrong loop of lines 76-77: a label without a class is skipped
RECURSIVE AttachAllSkip(_, _)
AttachAllSkip(items, st) ==
    IF items = <<>> THEN st
    ELSE LET key == Head(items).key
             attributes == Head(items).value
         IN  IF DictHas(st.classes, key)
             THEN AttachAllSkip(Tail(items),
                    [st EXCEPT
                       !.classes = SetAttributes(@, key, attributes),
                       !.assignLog = Append(@, key)])
             ELSE AttachAllSkip(Tail(items), st)

\* the loop of lines 76-77 over attributes_map.items(); classes[key] of a
\* label without a class raises KeyError and ends the loop
RECURSIVE AttachAll(_, _)
AttachAll(items, st) ==
    IF items = <<>> THEN st
    ELSE LET key == Head(items).key
             attributes == Head(items).value
         IN  IF DictHas(st.classes, key)
             THEN AttachAll(Tail(items),
                    [st EXCEPT
                       !.classes = SetAttributes(@, key, attributes),
                       !.assignLog = Append(@, key)])
             ELSE [st EXCEPT !.error = Some("KeyError")]

-----------------------------------------------------------------------------
(* What the source can return *)

\* the node records of a visualization result with n nodes
NodeSeqs(n) ==
    {[i \in 1..n |-> [id |-> NodeId(i), name |-> f[i]]] :
        f \in [1..n -> Labels]}

\* a relationship record ends at nodes of the result or at a node outside it
EndpointNodes(ns) == {ns[i] : i \in 1..Len(ns)} \cup {GhostNode}

RelRecords(ns) ==
    {[type |-> t, nodes |-> <<a, b>>] :
        t \in RelTypes, a \in EndpointNodes(ns), b \in EndpointNodes(ns)}

PropRecords ==
    {[nodeLabels |-> ls, propertyName |-> s[1], propertyTypes |-> s[2]] :
        ls \in LabelLists, s \in PropShapes}

SeqsOf(S, n) == UNION {[1..m -> S] : m \in 0..n}

TypeLists == UNION {[1..m -> SourceTypes] : m \in 0..MaxTypes}

-----------------------------------------------------------------------------
(* Converter.__init__ and the main block, step by step *)

Init ==
    /\ pc = "start"
    /\ queries = <<>>
    /\ nodes = <<>>
    /\ rels = <<>>
    /\ props = <<>>
    /\ class_uuid = <<>>
    /\ minted = 0
    /\ classes = <<>>
    /\ relationships = NoneVal
    /\ attributes_map = <<>>
    /\ assignLog = <<>>
    /\ log = <<>>
    /\ error = NoneVal
    /\ schema = NoneVal
    /\ file = NoneVal
    /\ humeType = NoneVal

\* populate_schema, lines 48-50: the query and the classes
populate_classes ==
    /\ pc = "start"
    /\ \E n \in 0..MaxRecords :
         \E ns \in NodeSeqs(n) :
           \E rs \in SeqsOf(RelRecords(ns), MaxRecords - n) :
             LET r == MakeClasses(ns, [classes |-> <<>>,
                                       class_uuid |-> class_uuid,
                                       minted |-> minted])
             IN  /\ nodes' = ns
                 /\ rels' = rs
                 /\ classes' = r.classes
                 /\ class_uuid' = r.class_uuid
                 /\ minted' = r.minted
    /\ queries' = Append(queries, "CALL db.schema.visualization()")
    /\ pc' = "classes_done"
    /\ UNCHANGED <<props, relationships, attributes_map, assignLog, log,
                   error, schema, file, humeType>>

\* populate_schema, lines 51-52: the relationships and the return
populate_relationships ==
    /\ pc = "classes_done"
    /\ LET r == MakeRels(rels, class_uuid,
                         [relationships |-> <<>>, minted |-> minted,
                          error |-> NoneVal])
       IN  /\ minted' = r.minted
           /\ IF r.error = NoneVal
              THEN /\ relationships' = Some(r.relationships)
                   /\ pc' = "populated"
                   /\ error' = error
              ELSE /\ relationships' = relationships
                   /\ pc' = "aborted"
                   /\ error' = r.error
    /\ UNCHANGED <<queries, nodes, rels, props, class_uuid, classes,
                   attributes_map, assignLog, log, schema, file, humeType>>

\* collect_attributes, lines 57-74: the query and the attributes map
collect_read ==
    /\ pc = "populated"
    /\ \E ps \in SeqsOf(PropRecords, MaxRecords - Len(nodes) - Len(rels)) :
         LET r == CollectAll(ps, [attributes_map |-> <<>>, log |-> log])
         IN  /\ props' = ps
             /\ attributes_map' = r.attributes_map
             /\ log' = r.log
    /\ queries' = Append(queries, "CALL db.schema.nodeTypeProperties()")
    /\ pc' = "collected"
    /\ UNCHANGED <<nodes, rels, class_uuid, minted, classes, relationships,
                   assignLog, error, schema, file, humeType>>

\* collect_attributes, lines 76-77: the attribute lists go to the classes
collect_attach ==
    /\ pc = "collected"
    /\ LET r == AttachAll(attributes_map,
                          [classes |-> classes, assignLog |-> assignLog,
                           error |-> NoneVal])
       IN  /\ classes' = r.classes
           /\ assignLog' = r.assignLog
           /\ IF r.error = NoneVal
              THEN pc' = "attached" /\ error' = error
              ELSE pc' = "aborted" /\ error' = r.error
    /\ UNCHANGED <<queries, nodes, rels, props, class_uuid, minted,
                   relationships, attributes_map, log, schema, file,
                   humeType>>

\* __init__, lines 41-42: the schema document
assemble ==
    /\ pc = "attached"
    /\ schema' = Some([classes |-> DictValues(classes),
                       relationships |-> DictValues(relationships[1])])
    /\ pc' = "assembled"
    /\ UNCHANGED <<queries, nodes, rels, props, class_uuid, minted, classes,
                   relationships, attributes_map, assignLog, log, error,
                   file, humeType>>

\* the main block, lines 119-120: the document is written
write_file ==
    /\ pc = "assembled"
    /\ file' = schema
    /\ pc' = "written"
    /\ UNCHANGED <<queries, nodes, rels, props, class_uuid, minted, classes,
                   relationships, attributes_map, assignLog, log, error,
                   schema, humeType>>

Next ==
    \/ populate_classes
    \/ populate_relationships
    \/ collect_read
    \/ collect_attach
    \/ assemble
    \/ write_file

Spec == Init /\ [][Next]_vars

-----------------------------------------------------------------------------
(* Converter._to_hume_type called on its own, on one property record *)

InitType ==
    /\ pc = "type_in"
    /\ queries = <<>>
    /\ nodes = <<>>
    /\ rels = <<>>
    /\ \E ts \in TypeLists :
         props = <<[nodeLabels |-> <<"Person">>, propertyName |-> "age",
                    propertyTypes |-> ts]>>
    /\ class_uuid = <<>>
    /\ minted = 0
    /\ classes = <<>>
    /\ relationships = NoneVal
    /\ attributes_map = <<>>
    /\ assignLog = <<>>
    /\ log = <<>>
    /\ error = NoneVal
    /\ schema = NoneVal
    /\ file = NoneVal
    /\ humeType = NoneVal

\* _to_hume_type, lines 100-109; property_types[0] of an empty list raises
to_hume_type_call ==
    /\ pc = "type_in"
    /\ IF props[1].propertyTypes = <<>>
       THEN /\ error' = Some("IndexError")
            /\ pc' = "type_raised"
            /\ UNCHANGED <<humeType, log>>
       ELSE /\ humeType' = Some(_to_hume_type(props[1]))
            /\ log' = log \o _to_hume_type_log(props[1])
            /\ pc' = "type_out"
            /\ error' = error
    /\ UNCHANGED <<queries, nodes, rels, props, class_uuid, minted, classes,
                   relationships, attributes_map, assignLog, schema, file>>

NextType == to_hume_type_call

SpecType == InitType /\ [][NextType]_vars

-----------------------------------------------------------------------------
(* Properties *)

Range(s) == {s[i] : i \in 1..Len(s)}

HumeTypes == {"STRING", "NUMBER", "DOUBLE", "DATE", "BOOLEAN"}

NodeNames == [i \in 1..Len(nodes) |-> nodes[i].name]

NodeIds == {nodes[i].id : i \in 1..Len(nodes)}

RelTypeSeq == [i \in 1..Len(rels) |-> rels[i].type]

FirstIdx(ks, k) == CHOOSE i \in 1..Len(ks) :
                      ks[i] = k /\ \A j \in 1..(i - 1) : ks[j] # k

LastIdx(ks, k) == CHOOSE i \in 1..Len(ks) :
                     ks[i] = k /\ \A j \in (i + 1)..Len(ks) : ks[j] # k

\* the property records that name exactly the label l
RecordsOf(l) == SelectSeq(props, LAMBDA p : p.nodeLabels = <<l>>)

AttributesOf(c) == IF "attributes" \in DOMAIN c THEN c.attributes ELSE <<>>

\* some property record names a label that is no key of the class mapping
NamesUnknownLabel(p) == \E k \in 1..Len(p.nodeLabels) :
                           ~DictHas(classes, p.nodeLabels[k])

AfterAttach == pc \in {"attached", "assembled", "written"}
                 \/ (pc = "aborted" /\ Len(queries) = 2)

\* C1: in every schema document, start and endId of each relationship are
\* the uuid of a class of the document's classes list.
C1_EndpointsInDocument ==
    schema # NoneVal =>
        \A r \in Range(schema[1].relationships) :
            /\ \E c \in Range(schema[1].classes) : c.uuid = r.start
            /\ \E c \in Range(schema[1].classes) : c.uuid = r.endId

\* C2: when a relationship record has an endpoint that is not among the node
\* records, the run aborts in relationship extraction: no relationship
\* mapping is returned, the property query is never run and no document is
\* built or written.
C2_AbortOnMissingEndpoint ==
    (pc \notin {"start", "classes_done"}
       /\ \E i \in 1..Len(rels) :
             rels[i].nodes[1].id \notin NodeIds
               \/ rels[i].nodes[2].id \notin NodeIds)
    => /\ pc = "aborted"
       /\ error = Some("KeyError")
       /\ relationships = NoneVal
       /\ queries = <<"CALL db.schema.visualization()">>
       /\ props = <<>>
       /\ attributes_map = <<>>
       /\ assignLog = <<>>
       /\ schema = NoneVal
       /\ file = NoneVal

C2_Witness ==
    /\ pc = "aborted"
    /\ Len(rels) >= 2
    /\ rels[1].nodes[1].id \in NodeIds /\ rels[1].nodes[2].id \in NodeIds
    /\ rels[2].nodes[1].id \in NodeIds /\ rels[2].nodes[2].id \notin NodeIds

\* C3: the class mapping has one entry per distinct label of the node records
\* and the relationship mapping one entry per distinct type of the
\* relationship records; the entry of a label or type is the object built
\* from the last record with that label or type.
C3_LastWriteWins ==
    /\ pc # "start" =>
         /\ Len(classes) = Cardinality(Range(NodeNames))
         /\ Range(DictKeys(classes)) = Range(NodeNames)
         /\ \A l \in Range(NodeNames) :
               LET k == LastIdx(NodeNames, l)
                   c == DictGet(classes, l)
               IN  /\ c.label = l
                   /\ c.uuid = Uuid4(k - 1)
                   /\ c.uuid = class_uuid[nodes[k].id]
    /\ relationships # NoneVal =>
         /\ Len(relationships[1]) = Cardinality(Range(RelTypeSeq))
         /\ Range(DictKeys(relationships[1])) = Range(RelTypeSeq)
         /\ \A t \in Range(RelTypeSeq) :
               LET k == LastIdx(RelTypeSeq, t)
                   r == DictGet(relationships[1], t)
               IN  /\ r.label = t
                   /\ r.uuid = Uuid4(Len(nodes) + k - 1)
                   /\ r.start = class_uuid[rels[k].nodes[1].id]
                   /\ r.endId = class_uuid[rels[k].nodes[2].id]
                   /\ r.startLabel = rels[k].nodes[1].name
                   /\ r.endLabel = rels[k].nodes[2].name

C3_Witness ==
    /\ pc = "populated"
    /\ Len(nodes) = 2 /\ nodes[1].name = nodes[2].name
    /\ Len(rels) = 2 /\ rels[1].type = rels[2].type
    /\ rels[1].nodes # rels[2].nodes
    /\ Len(classes) = 1 /\ Len(relationships[1]) = 1

\* C4 as stated: a property record that names a label that is no key of the
\* class mapping aborts the run, and no document is built or written.
C4_AnyUnknownLabelFatal ==
    (AfterAttach /\ \E i \in 1..Len(props) : NamesUnknownLabel(props[i]))
    => pc = "aborted" /\ schema = NoneVal /\ file = NoneVal

\* C4 amended: a property record that names exactly one label, which is no
\* key of the class mapping, aborts the run: no attribute list is attached
\* for that label and no document is built or written.
C4_SingleUnknownLabelFatal ==
    (AfterAttach
       /\ \E i \in 1..Len(props) :
             Len(props[i].nodeLabels) = 1 /\ NamesUnknownLabel(props[i]))
    => /\ pc = "aborted"
       /\ error = Some("KeyError")
       /\ schema = NoneVal
       /\ file = NoneVal
       /\ \A i \in 1..Len(props) :
             (Len(props[i].nodeLabels) = 1 /\ NamesUnknownLabel(props[i]))
                => props[i].nodeLabels[1] \notin Range(assignLog)

C4_Witness ==
    /\ pc = "aborted"
    /\ Len(props) = 2
    /\ Len(props[1].nodeLabels) = 1 /\ ~NamesUnknownLabel(props[1])
    /\ Len(props[2].nodeLabels) = 1 /\ NamesUnknownLabel(props[2])
    /\ assignLog = props[1].nodeLabels

\* C5: in a run that produces a document, the class of label l has as many
\* attributes as there are property records naming exactly l; a record with
\* no label or with several labels adds no attribute and logs one warning.
C5_OneAttributePerSingleLabelRecord ==
    schema # NoneVal =>
        /\ \A c \in Range(schema[1].classes) :
              Len(AttributesOf(c)) = Len(RecordsOf(c.label))
        /\ \A i \in 1..Len(props) :
              Len(props[i].nodeLabels) = 1
                 => \E c \in Range(schema[1].classes) :
                       c.label = props[i].nodeLabels[1]
        /\ Len(SelectSeq(log, LAMBDA w : w = "multiple labels"))
              = Len(SelectSeq(props, LAMBDA p : Len(p.nodeLabels) # 1))

C5_Witness ==
    /\ file # NoneVal
    /\ Len(props) = 3
    /\ props[1] = props[2]
    /\ Len(props[1].nodeLabels) = 1
    /\ Len(props[3].nodeLabels) = 2
    /\ \E c \in Range(file[1].classes) : Len(AttributesOf(c)) = 2

\* C6: every attribute of the attributes map and of every class has a type
\* in {STRING, NUMBER, DOUBLE, DATE, BOOLEAN}.
C6_TypesInEnumeration ==
    /\ \A i \in 1..Len(attributes_map) :
          \A a \in Range(attributes_map[i].value) : a.type \in HumeTypes
    /\ \A i \in 1..Len(classes) :
          \A a \in Range(AttributesOf(classes[i].value)) :
              a.type \in HumeTypes
    /\ schema # NoneVal =>
          \A c \in Range(schema[1].classes) :
              \A a \in Range(AttributesOf(c)) : a.type \in HumeTypes

C6_Witness ==
    /\ schema # NoneVal
    /\ \E i \in 1..Len(props) :
          /\ Len(props[i].nodeLabels) = 1
          /\ Len(props[i].propertyTypes) > 1
          /\ props[i].propertyTypes[1] \notin DOMAIN TYPES_MAPPING
    /\ \E c \in Range(schema[1].classes) :
          \E a \in Range(AttributesOf(c)) : a.type = "STRING"

\* C7: every class is built with an attribute list, so every class of the
\* final document carries an attribute list.
C7_EveryClassHasAttributeList ==
    /\ \A i \in 1..Len(classes) : "attributes" \in DOMAIN classes[i].value
    /\ schema # NoneVal =>
          \A c \in Range(schema[1].classes) : "attributes" \in DOMAIN c

\* the mapping table as the specification lists it
TableOfSpec(t) ==
    CASE t = "String" -> "STRING"
      [] t = "Long" -> "NUMBER"
      [] t = "Double" -> "DOUBLE"
      [] t = "StringArray" -> "STRING"
      [] t = "Date" -> "DATE"
      [] t = "Point" -> "STRING"
      [] t = "Boolean" -> "BOOLEAN"
      [] OTHER -> "STRING"

\* C8: for a non-empty list of observed types the result is the table's
\* value for the first type, STRING when the table has no such key; further
\* types and the warnings never change the result or raise an error.
C8_FirstTypeDecides ==
    /\ pc = "type_out" =>
          /\ humeType = Some(TableOfSpec(props[1].propertyTypes[1]))
          /\ error = NoneVal
    /\ pc = "type_raised" => props[1].propertyTypes = <<>>
    /\ (pc \in {"type_out", "type_raised"}
          /\ props[1].propertyTypes # <<>>) => humeType # NoneVal

C8_Witness ==
    /\ pc = "type_out"
    /\ props[1].propertyTypes = <<"Alien", "Long">>
    /\ humeType = Some("STRING")
    /\ log = <<"multiple property types", "unsupported type">>

\* C9 as stated: in the document, a class or relationship that comes before
\* another one was built from an earlier input record.
C9_CreationOrder ==
    schema # NoneVal =>
        /\ \A i, j \in 1..Len(schema[1].classes) :
              i < j =>
                 FirstIdx([k \in 1..Len(nodes) |-> Uuid4(k - 1)],
                          schema[1].classes[i].uuid)
                 < FirstIdx([k \in 1..Len(nodes) |-> Uuid4(k - 1)],
                            schema[1].classes[j].uuid)
        /\ \A i, j \in 1..Len(schema[1].relationships) :
              i < j =>
                 FirstIdx([k \in 1..Len(rels) |-> Uuid4(Len(nodes) + k - 1)],
                          schema[1].relationships[i].uuid)
                 < FirstIdx([k \in 1..Len(rels) |->
                               Uuid4(Len(nodes) + k - 1)],
                            schema[1].relationships[j].uuid)

\* C9 amended: the classes and the relationships of the document are ordered
\* by the first input record that has their label or type.
C9_FirstOccurrenceOrder ==
    schema # NoneVal =>
        /\ \A i, j \in 1..Len(schema[1].classes) :
              i < j =>
                 FirstIdx(NodeNames, schema[1].classes[i].label)
                 < FirstIdx(NodeNames, schema[1].classes[j].label)
        /\ \A i, j \in 1..Len(schema[1].relationships) :
              i < j =>
                 FirstIdx(RelTypeSeq, schema[1].relationships[i].label)
                 < FirstIdx(RelTypeSeq, schema[1].relationships[j].label)

C9_Witness ==
    /\ schema # NoneVal
    /\ Len(nodes) = 3
    /\ nodes[1].name = nodes[3].name /\ nodes[1].name # nodes[2].name
    /\ Len(schema[1].classes) = 2
    /\ schema[1].classes[1].uuid = Uuid4(2)

====
